---- MODULE Spec2Model ----
(***************************************************************************)
(* Model of document-portal/xdp-util.c: the cache that maps a D-Bus unique *)
(* connection name to the sandbox app id of the peer (app_ids hash table,  *)
(* xdp_invocation_lookup_app_id, got_credentials_cb, name_owner_changed).  *)
(*                                                                         *)
(* C strings are sequences of one-character strings.  A GList is a         *)
(* sequence whose head is the list head.  All handlers run on one main     *)
(* loop, so each handler is one atomic action; the GTask callbacks that    *)
(* got_credentials_cb invokes while it walks the pending list run inside   *)
(* that handler and may call xdp_invocation_lookup_app_id again.           *)
(***************************************************************************)
EXTENDS Integers, Sequences, FiniteSets, TLC

\* ------------------------------------------------------------------ bounds
\* number of xdp_invocation_lookup_app_id calls in one behaviour
MaxTasks == 3
\* longest <token> in a generated "xdg-app-<token>.scope" basename
MaxTokenLen == 2
\* number of lookups in one behaviour of the cgroup-parsing specification
MaxCgroupTasks == 2
\* longest permission token list stored in a grant record
MaxPermTokens == 2
\* number of lookups in one behaviour of the cancellation specification
MaxCancelTasks == 3

\* --------------------------------------------------------------- C strings
\* a NULL char* / NULL reply; distinct from every string, "NULL" is no character
NULL == <<"NULL">>
\* g_file_get_contents returned FALSE
Unreadable == <<"ENOENT">>

HasPrefix(s, p) == Len(s) >= Len(p) /\ SubSeq(s, 1, Len(p)) = p
HasSuffix(s, p) == Len(s) >= Len(p) /\ SubSeq(s, Len(s) - Len(p) + 1, Len(s)) = p

\* strrchr instead of strchr: the last occurrence
RECURSIVE MutStrRChrFrom(_, _, _)
MutStrRChrFrom(s, c, i) ==
  IF i < 1 THEN 0
  ELSE IF s[i] = c THEN i
  ELSE MutStrRChrFrom(s, c, i - 1)
MutStrRChr(s, c) == MutStrRChrFrom(s, c, Len(s))

\* strchr: index of the first occurrence of c in s, 0 when there is none
RECURSIVE StrChrFrom(_, _, _)
StrChrFrom(s, c, i) ==
  IF i > Len(s) THEN 0
  ELSE IF s[i] = c THEN i
  ELSE StrChrFrom(s, c, i + 1)
StrChr(s, c) == StrChrFrom(s, c, 1)

\* g_strsplit (content, "\n", -1): the empty string gives the empty vector
RECURSIVE SplitFrom(_, _)
SplitFrom(s, cur) ==
  IF s = <<>> THEN <<cur>>
  ELSE IF Head(s) = "\n" THEN <<cur>> \o SplitFrom(Tail(s), <<>>)
  ELSE SplitFrom(Tail(s), Append(cur, Head(s)))
StrSplit(content) == IF content = <<>> THEN <<>> ELSE SplitFrom(content, <<>>)

\* g_path_get_basename
RECURSIVE LastNonSlash(_, _)
LastNonSlash(s, i) ==
  IF i >= 1 /\ s[i] = "/" THEN LastNonSlash(s, i - 1) ELSE i
RECURSIVE BaseStart(_, _)
BaseStart(s, i) ==
  IF i >= 1 /\ s[i] # "/" THEN BaseStart(s, i - 1) ELSE i
PathGetBasename(file_name) ==
  IF file_name = <<>> THEN <<".">>
  ELSE LET last == LastNonSlash(file_name, Len(file_name))
       IN IF last = 0 THEN <<"/">>
          ELSE SubSeq(file_name, BaseStart(file_name, last) + 1, last)

SystemdPrefix ==
  <<"1", ":", "n", "a", "m", "e", "=", "s", "y", "s", "t", "e", "m", "d", ":">>
XdgAppPrefix == <<"x", "d", "g", "-", "a", "p", "p", "-">>
ScopeSuffix == <<".", "s", "c", "o", "p", "e">>

\* || instead of &&
MutPrefixOrSuffix(scope) ==
  HasPrefix(scope, XdgAppPrefix) \/ HasSuffix(scope, ScopeSuffix)

\* the basename names the scope of a sandboxed app
IsSandboxScope(scope) ==
  HasPrefix(scope, XdgAppPrefix) /\ HasSuffix(scope, ScopeSuffix)

\* a scope name without "-" is taken for a host process
MutScanLineNoDashIsHost(line, app_id) ==
  IF HasPrefix(line, SystemdPrefix)
  THEN LET unit == SubSeq(line, Len(SystemdPrefix) + 1, Len(line))
           scope == PathGetBasename(unit)
       IN IF IsSandboxScope(scope)
          THEN LET name == SubSeq(scope, Len(XdgAppPrefix) + 1, Len(scope))
                   dash == StrChr(name, "-")
               IN IF dash # 0 THEN SubSeq(name, 1, dash - 1) ELSE <<>>
          ELSE <<>>
  ELSE app_id

\* one iteration of the loop over the cgroup lines: the app id after `line`
ScanLine(line, app_id) ==
  IF HasPrefix(line, SystemdPrefix)
  THEN LET unit == SubSeq(line, Len(SystemdPrefix) + 1, Len(line))
           scope == PathGetBasename(unit)
       IN IF IsSandboxScope(scope)
          THEN LET name == SubSeq(scope, Len(XdgAppPrefix) + 1, Len(scope))
                   dash == StrChr(name, "-")
               IN IF dash # 0 THEN SubSeq(name, 1, dash - 1) ELSE app_id
          ELSE <<>>
  ELSE app_id

\* the whole loop: later lines overwrite what earlier lines stored
RECURSIVE ScanLines(_, _)
ScanLines(lines, app_id) ==
  IF lines = <<>> THEN app_id
  ELSE ScanLines(Tail(lines), ScanLine(Head(lines), app_id))

\* the file was not opened at all
NotRead == <<"NOTREAD">>

\* the exited flag is not consulted
MutReadsFileIgnoreExited(info, reply) == reply # NULL

\* /proc/<pid>/cgroup is read only for a reply to a peer that has not exited
ReadsFile(info, reply) == ~info.exited /\ reply # NULL

\* info->app_id after the identity derivation of got_credentials_cb
DeriveAppId(info, reply, content) ==
  IF ReadsFile(info, reply)
  THEN IF content # Unreadable
       THEN ScanLines(StrSplit(content), info.app_id)
       ELSE info.app_id
  ELSE info.app_id

\* ------------------------------------------------------------- permissions
\* XdpPermissionFlags
XDP_PERMISSION_FLAGS_READ == 1
XDP_PERMISSION_FLAGS_WRITE == 2
XDP_PERMISSION_FLAGS_GRANT_PERMISSIONS == 4
XDP_PERMISSION_FLAGS_DELETE == 8
XDP_PERMISSION_FLAGS_ALL == 15
\* the flags are kept in FlagBits bits
FlagBits == 4

\* a & b and a | b on FlagBits-bit values
RECURSIVE BitAndN(_, _, _)
BitAndN(a, b, n) ==
  IF n = 0 THEN 0
  ELSE (IF a % 2 = 1 /\ b % 2 = 1 THEN 1 ELSE 0) + 2 * BitAndN(a \div 2, b \div 2, n - 1)
BitAnd(a, b) == BitAndN(a, b, FlagBits)
RECURSIVE BitOrN(_, _, _)
BitOrN(a, b, n) ==
  IF n = 0 THEN 0
  ELSE (IF a % 2 = 1 \/ b % 2 = 1 THEN 1 ELSE 0) + 2 * BitOrN(a \div 2, b \div 2, n - 1)
BitOr(a, b) == BitOrN(a, b, FlagBits)

xdg_unparse_permissions(permissions) ==
  (IF BitAnd(permissions, XDP_PERMISSION_FLAGS_READ) # 0 THEN <<"read">> ELSE <<>>)
  \o (IF BitAnd(permissions, XDP_PERMISSION_FLAGS_WRITE) # 0 THEN <<"write">> ELSE <<>>)
  \o (IF BitAnd(permissions, XDP_PERMISSION_FLAGS_GRANT_PERMISSIONS) # 0
      THEN <<"grant-permissions">> ELSE <<>>)
  \o (IF BitAnd(permissions, XDP_PERMISSION_FLAGS_DELETE) # 0 THEN <<"delete">> ELSE <<>>)

\* "grant-permissions" is compared with "grant"
MutTokenFlagGrant(token) ==
  IF token = "read" THEN XDP_PERMISSION_FLAGS_READ
  ELSE IF token = "write" THEN XDP_PERMISSION_FLAGS_WRITE
  ELSE IF token = "grant" THEN XDP_PERMISSION_FLAGS_GRANT_PERMISSIONS
  ELSE IF token = "delete" THEN XDP_PERMISSION_FLAGS_DELETE
  ELSE 0

\* the strcmp chain: the bit of a token, 0 (and a warning) for an unknown one
TokenFlag(token) ==
  IF token = "read" THEN XDP_PERMISSION_FLAGS_READ
  ELSE IF token = "write" THEN XDP_PERMISSION_FLAGS_WRITE
  ELSE IF token = "grant-permissions" THEN XDP_PERMISSION_FLAGS_GRANT_PERMISSIONS
  ELSE IF token = "delete" THEN XDP_PERMISSION_FLAGS_DELETE
  ELSE 0

RECURSIVE ParseFrom(_, _)
ParseFrom(permissions, perms) ==
  IF permissions = <<>> THEN perms
  ELSE ParseFrom(Tail(permissions), BitOr(perms, TokenFlag(Head(permissions))))
xdp_parse_permissions(permissions) == ParseFrom(permissions, 0)

\* the token list stored for app_id in the grant record, empty when none is
xdg_app_db_entry_list_permissions(entry, app_id) ==
  IF app_id \in DOMAIN entry THEN entry[app_id] ELSE <<>>

\* the owner sentinel is not recognised
MutGetPermissionsNoOwner(entry, app_id) ==
  xdp_parse_permissions(xdg_app_db_entry_list_permissions(entry, app_id))

xdp_get_permissions(entry, app_id) ==
  IF app_id = <<>> THEN XDP_PERMISSION_FLAGS_ALL
  ELSE xdp_parse_permissions(xdg_app_db_entry_list_permissions(entry, app_id))

xdp_has_permissions(entry, app_id, perms) ==
  LET current_perms == xdp_get_permissions(entry, app_id)
  IN BitAnd(current_perms, perms) = perms

\* ------------------------------------------------------------------ inputs
\* unique connection names of the peers that call the portal
Senders == {<<":", "1">>, <<":", "2">>}
\* a well-known bus name, which NameOwnerChanged also reports
WellKnown == <<"o", "r", "g">>
BusNames == Senders \cup {WellKnown}

TokenChars == {"a", "b", "-"}
RECURSIVE SeqsUpTo(_, _)
SeqsUpTo(S, n) ==
  IF n = 0 THEN {<<>>}
  ELSE LET shorter == SeqsUpTo(S, n - 1)
       IN shorter \cup {Append(s, c) : s \in {x \in shorter : Len(x) = n - 1}, c \in S}
Tokens == SeqsUpTo(TokenChars, MaxTokenLen)

Dirs == {<<>>, <<"/">>, <<"/", "u", "/">>}
ScopeNames == {XdgAppPrefix \o tok \o ScopeSuffix : tok \in Tokens}
OtherNames ==
  { <<"o", ".", "s">>,                                 \* other.service
    XdgAppPrefix \o <<"a", "-", "1">>,                  \* prefix, no suffix
    <<"a", "-", "1">> \o ScopeSuffix,                   \* suffix, no prefix
    <<>> }
Units ==
  {d \o b : d \in Dirs, b \in ScopeNames \cup OtherNames}
    \cup {<<"/">> \o b \o <<"/">> : b \in ScopeNames}
SystemdLines == {SystemdPrefix \o u : u \in Units}
OtherLines == {<<>>, <<"2", ":", "c", "p", "u", ":", "/">>}

\* /user.slice/xdg-app-myapp-12345.scope
MyAppUnit ==
  <<"/", "u", "s", "e", "r", ".", "s", "l", "i", "c", "e", "/", "x", "d",
    "g", "-", "a", "p", "p", "-", "m", "y", "a", "p", "p", "-", "1", "2",
    "3", "4", "5", ".", "s", "c", "o", "p", "e">>
\* /system.slice/other.service
OtherServiceUnit ==
  <<"/", "s", "y", "s", "t", "e", "m", ".", "s", "l", "i", "c", "e", "/",
    "o", "t", "h", "e", "r", ".", "s", "e", "r", "v", "i", "c", "e">>
\* /xdg-app-noinstancemarker.scope
NoMarkerUnit ==
  <<"/", "x", "d", "g", "-", "a", "p", "p", "-", "n", "o", "i", "n", "s",
    "t", "a", "n", "c", "e", "m", "a", "r", "k", "e", "r", ".", "s", "c",
    "o", "p", "e">>
ExampleLines == {SystemdPrefix \o u : u \in {MyAppUnit, OtherServiceUnit, NoMarkerUnit}}

\* cgroup files with one line, with and without the final newline
OneLineContents ==
  LET lines == SystemdLines \cup OtherLines \cup ExampleLines
  IN lines \cup {l \o <<"\n">> : l \in lines}

\* the cgroup files of the peers in Spec: resolved, host, no dash, unreadable
SandboxLine == SystemdPrefix \o <<"/", "u", "/">> \o XdgAppPrefix \o <<"a", "-", "1">> \o ScopeSuffix
HostLine == SystemdPrefix \o <<"/", "s", "/", "o", ".", "s">>
NoDashLine == SystemdPrefix \o <<"/">> \o XdgAppPrefix \o <<"a">> \o ScopeSuffix
CpuLine == <<"2", ":", "c", "p", "u", ":", "/">>
FewContents ==
  { CpuLine \o <<"\n">> \o SandboxLine \o <<"\n">>,
    HostLine \o <<"\n">>,
    NoDashLine \o <<"\n">>,
    Unreadable }

\* the requesters of the permission queries; "b" has no stored list
PermApps == {<<>>, <<"a">>, <<"b">>}
PermTokens == {"read", "write", "grant-permissions", "delete", "bogus"}
TokenLists == SeqsUpTo(PermTokens, MaxPermTokens)
\* grant records: a list for "a", and with or without a list for ""
Entries ==
  {(<<"a">> :> l) : l \in TokenLists}
    \cup {(<<"a">> :> l) @@ (<<>> :> o) : l \in TokenLists, o \in {<<>>, <<"read">>}}
AllFlags == 0..XDP_PERMISSION_FLAGS_ALL

\* ------------------------------------------------------------------- state
VARIABLES
  app_ids,      \* the hash table: connection name -> AppIdInfo
  queries,      \* GetConnectionUnixProcessID calls awaiting their reply
  sent,         \* every GetConnectionUnixProcessID call ever sent
  task_sender,  \* task_sender[t]: the sender of the invocation of GTask t
  returned,     \* the g_task_return_* calls made so far, in order
  last,         \* the handler that ran last; for got_credentials_cb also its
                \* inputs and the exited flag and pending list it started from
  perm,         \* the permission helper that ran last, its inputs and results
  cancelled     \* the live GTasks whose GCancellable has been cancelled

vars == <<app_ids, queries, sent, task_sender, returned, last, perm, cancelled>>
cache_vars == <<app_ids, queries, sent, task_sender, returned, last, cancelled>>

\* g_new0 (AppIdInfo, 1) with its name set
NewInfo(sender) ==
  [name |-> sender, app_id |-> NULL, exited |-> FALSE, pending |-> <<>>]

\* the state the handlers read and write, as one value
World ==
  [app_ids |-> app_ids, queries |-> queries, sent |-> sent,
   task_sender |-> task_sender, returned |-> returned]

Install(w) ==
  /\ app_ids' = w.app_ids
  /\ queries' = w.queries
  /\ sent' = w.sent
  /\ task_sender' = w.task_sender
  /\ returned' = w.returned

\* `last` when the handler that ran last was not got_credentials_cb
NoCall == [op |-> "none", msg |-> <<>>, reply |-> NULL, content |-> NotRead,
           reentrant |-> {}, exited |-> FALSE, waiters |-> <<>>,
           cancelled |-> {}]

\* g_task_return_pointer / g_task_return_new_error on `task`
TaskReturn(w, task, app_id, at) ==
  [w EXCEPT !.returned =
     Append(@, [task |-> task,
                kind |-> IF app_id = NULL THEN "error" ELSE "value",
                value |-> app_id,
                at |-> at])]

\* the cached app id is never used
MutNeverResolved(info) == FALSE

\* the entry already holds an app id
IsResolved(info) == info.app_id # NULL

\* the check for an outstanding query is missing
MutDispatchAlways(info) == TRUE

\* the credential query is sent only when no task is pending
MustDispatch(info) == info.pending = <<>>

\* g_list_append instead of g_list_prepend
MutEnqueueAppend(pending, task) == Append(pending, task)

\* g_list_prepend: the new task becomes the head of the list
Enqueue(pending, task) == <<task>> \o pending

xdp_invocation_lookup_app_id(w, sender) ==
  LET task == Len(w.task_sender) + 1
      w1 == [w EXCEPT !.task_sender = Append(@, sender)]
      table == IF sender \in DOMAIN w1.app_ids
               THEN w1.app_ids
               ELSE w1.app_ids @@ (sender :> NewInfo(sender))
      info == table[sender]
      w2 == [w1 EXCEPT !.app_ids = table]
  IN IF IsResolved(info)
     THEN TaskReturn(w2, task, info.app_id, "lookup")
     ELSE LET msg == [sender |-> sender, task |-> task]
              w3 == IF MustDispatch(info)
                    THEN [w2 EXCEPT !.queries = @ \cup {msg},
                                    !.sent = @ \cup {msg}]
                    ELSE w2
          IN [w3 EXCEPT !.app_ids[sender].pending = Enqueue(@, task)]

\* only the head of the list is completed
MutReturnHeadOnly(w, name, l, reentrant) ==
  IF l = <<>> THEN w
  ELSE TaskReturn(w, Head(l), w.app_ids[name].app_id, "drain")

\* the loop over info->pending, from list node l on; the callback of a task
\* in `reentrant` calls xdp_invocation_lookup_app_id for its own sender
RECURSIVE ReturnPending(_, _, _, _)
ReturnPending(w, name, l, reentrant) ==
  IF l = <<>> THEN w
  ELSE LET task == Head(l)
           w1 == TaskReturn(w, task, w.app_ids[name].app_id, "drain")
           w2 == IF task \in reentrant
                 THEN xdp_invocation_lookup_app_id(w1, name)
                 ELSE w1
       IN ReturnPending(w2, name, Tail(l), reentrant)

\* the failed entry is left in the table
MutNeverEvict(info) == FALSE

\* a failed lookup is not kept in the table
MustEvict(info) == info.app_id = NULL

got_credentials_cb(w, msg, reply, content, reentrant) ==
  LET name == msg.sender
      info == w.app_ids[name]
      w1 == [w EXCEPT !.queries = @ \ {msg},
                      !.app_ids[name].app_id = DeriveAppId(info, reply, content)]
      w2 == ReturnPending(w1, name, w1.app_ids[name].pending, reentrant)
      w3 == [w2 EXCEPT !.app_ids[name].pending = <<>>]
  IN IF MustEvict(w3.app_ids[name])
     THEN [w3 EXCEPT !.app_ids = [n \in DOMAIN @ \ {name} |-> @[n]]]
     ELSE w3

\* the disconnect only marks the entry
MutNeverRemove(info) == FALSE

\* the disconnect removes the entry whether or not tasks wait on it
MutAlwaysRemove(info) == TRUE

\* an entry is dropped on disconnect only when nothing waits on it
MayRemove(info) == info.pending = <<>>

\* the test for an empty new owner is missing
MutOwnerChangedAnyNewOwner(w, name, from, to) ==
  IF name[1] = ":" /\ name = from
  THEN IF name \in DOMAIN w.app_ids
       THEN LET w1 == [w EXCEPT !.app_ids[name].exited = TRUE]
            IN IF MayRemove(w1.app_ids[name])
               THEN [w1 EXCEPT !.app_ids = [n \in DOMAIN @ \ {name} |-> @[n]]]
               ELSE w1
       ELSE w
  ELSE w

name_owner_changed(w, name, from, to) ==
  IF name[1] = ":" /\ name = from /\ to = <<>>
  THEN IF name \in DOMAIN w.app_ids
       THEN LET w1 == [w EXCEPT !.app_ids[name].exited = TRUE]
            IN IF MayRemove(w1.app_ids[name])
               THEN [w1 EXCEPT !.app_ids = [n \in DOMAIN @ \ {name} |-> @[n]]]
               ELSE w1
       ELSE w
  ELSE w

\* `perm` before any permission helper ran
NoPerm == [op |-> "none", flags |-> 0, tokens |-> <<>>, parsed |-> 0,
           entry |-> <<>>, app_id |-> <<>>, required |-> 0, current |-> 0,
           has |-> FALSE]

\* ----------------------------------------------------------------- actions
Init ==
  /\ app_ids = <<>>
  /\ queries = {}
  /\ sent = {}
  /\ task_sender = <<>>
  /\ returned = <<>>
  /\ last = NoCall
  /\ perm = NoPerm
  /\ cancelled = {}

\* a portal method call from `sender` arrives
Lookup(sender) ==
  /\ Len(task_sender) < MaxTasks
  /\ Install(xdp_invocation_lookup_app_id(World, sender))
  /\ last' = [NoCall EXCEPT !.op = "lookup"]
  /\ UNCHANGED <<perm, cancelled>>

\* the elements of a list
Elems(l) == {l[i] : i \in 1..Len(l)}

\* the query is sent without a cancellable
MutQueryNeverCancelled(msg, cancelled_tasks) == FALSE

\* the query carries the cancellable of the call that sent it: once that is
\* cancelled, g_dbus_connection_send_message_with_reply_finish returns NULL
QueryCancelled(msg, cancelled_tasks) == msg.task \in cancelled_tasks

\* the reply to (or the failure of) the query `msg` is dispatched; user_data
\* is the entry the query was sent for, which is still the one in the table
\* (name_owner_changed removes no entry that has pending tasks); `reentrant`
\* are the pending tasks whose callback looks the app id up again
Reply(msg, reply, content, reentrant) ==
  /\ msg \in queries
  /\ msg.sender \in DOMAIN app_ids
  /\ reentrant \subseteq {app_ids[msg.sender].pending[i] :
                            i \in 1..Len(app_ids[msg.sender].pending)}
  /\ Len(task_sender) + Cardinality(reentrant) <= MaxTasks
  /\ QueryCancelled(msg, cancelled) => reply = NULL
  /\ Install(got_credentials_cb(World, msg, reply, content, reentrant))
  /\ last' = [op |-> "reply", msg |-> msg, reply |-> reply,
              content |-> IF ReadsFile(app_ids[msg.sender], reply)
                          THEN content ELSE NotRead,
              reentrant |-> reentrant,
              exited |-> app_ids[msg.sender].exited,
              waiters |-> app_ids[msg.sender].pending,
              cancelled |-> cancelled \cap Elems(app_ids[msg.sender].pending)]
  /\ cancelled' = cancelled \ Elems(app_ids[msg.sender].pending)
  /\ UNCHANGED perm

\* a NameOwnerChanged signal is dispatched
OwnerChanged(name, from, to) ==
  /\ Install(name_owner_changed(World, name, from, to))
  /\ last' = [NoCall EXCEPT !.op = "signal"]
  /\ UNCHANGED <<perm, cancelled>>

Replies == {NULL, <<"pid">>}
Msgs == [sender : Senders, task : 1..(MaxTasks + 1)]

Next ==
  \/ \E sender \in Senders : Lookup(sender)
  \/ \E msg \in Msgs, reply \in Replies, content \in FewContents,
        reentrant \in SUBSET (1..MaxTasks) :
       Reply(msg, reply, content, reentrant)
  \/ \E name \in BusNames :
       \E from \in {name, <<>>}, to \in {name, <<>>} :
         OwnerChanged(name, from, to)

Spec == Init /\ [][Next]_vars

\* one peer, whose cgroup file is any of the one-line files; at most
\* MaxCgroupTasks lookups
CgroupSender == <<":", "1">>
CgroupLookup(sender) ==
  /\ Len(task_sender) < MaxCgroupTasks
  /\ Lookup(sender)

NextCgroup ==
  \/ CgroupLookup(CgroupSender)
  \/ \E task \in 1..MaxCgroupTasks, reply \in Replies,
        content \in OneLineContents \cup {Unreadable} :
       Reply([sender |-> CgroupSender, task |-> task], reply, content, {})
  \/ OwnerChanged(CgroupSender, CgroupSender, <<>>)

SpecCgroup == Init /\ [][NextCgroup]_vars

\* the caller of pending task t cancels the GCancellable it passed in
Cancel(t) ==
  /\ t \in 1..Len(task_sender)
  /\ t \notin cancelled
  /\ \E n \in DOMAIN app_ids : t \in Elems(app_ids[n].pending)
  /\ cancelled' = cancelled \cup {t}
  /\ UNCHANGED <<app_ids, queries, sent, task_sender, returned, perm>>
  /\ last' = [NoCall EXCEPT !.op = "cancel"]

CancelLookup(sender) ==
  /\ Len(task_sender) < MaxCancelTasks
  /\ Lookup(sender)

CancelReply(msg, reply, content, reentrant) ==
  /\ Len(task_sender) + Cardinality(reentrant) <= MaxCancelTasks
  /\ Reply(msg, reply, content, reentrant)

\* one peer whose callers may cancel their lookups
NextCancel ==
  \/ CancelLookup(CgroupSender)
  \/ \E task \in 1..MaxCancelTasks, reply \in Replies, content \in FewContents,
        reentrant \in SUBSET (1..MaxCancelTasks) :
       CancelReply([sender |-> CgroupSender, task |-> task], reply, content, reentrant)
  \/ OwnerChanged(CgroupSender, CgroupSender, <<>>)
  \/ \E t \in 1..MaxCancelTasks : Cancel(t)

SpecCancel == Init /\ [][NextCancel]_vars

\* the permission helpers are functions of their arguments: a behaviour of
\* SpecPerm starts with the arguments of one call and runs that call
PermCalls ==
  {[NoPerm EXCEPT !.op = "call_unparse", !.flags = permissions] :
     permissions \in AllFlags}
    \cup {[NoPerm EXCEPT !.op = "call_has", !.entry = entry, !.app_id = app_id,
                         !.required = perms] :
            entry \in Entries, app_id \in PermApps, perms \in AllFlags}

InitPerm ==
  /\ app_ids = <<>>
  /\ queries = {}
  /\ sent = {}
  /\ task_sender = <<>>
  /\ returned = <<>>
  /\ last = NoCall
  /\ cancelled = {}
  /\ perm \in PermCalls

\* xdg_unparse_permissions (permissions)
Unparse ==
  /\ perm.op = "call_unparse"
  /\ perm' = [perm EXCEPT !.op = "unparse",
                          !.tokens = xdg_unparse_permissions(perm.flags)]
  /\ UNCHANGED cache_vars

\* xdp_parse_permissions on the token list that was just produced
ParseBack ==
  /\ perm.op = "unparse"
  /\ perm' = [perm EXCEPT !.op = "parse", !.parsed = xdp_parse_permissions(perm.tokens)]
  /\ UNCHANGED cache_vars

\* xdp_has_permissions (entry, app_id, perms), which calls xdp_get_permissions
HasPermissions ==
  /\ perm.op = "call_has"
  /\ perm' = [perm EXCEPT !.op = "has",
                          !.current = xdp_get_permissions(perm.entry, perm.app_id),
                          !.has = xdp_has_permissions(perm.entry, perm.app_id,
                                                      perm.required)]
  /\ UNCHANGED cache_vars

NextPerm ==
  \/ Unparse
  \/ ParseBack
  \/ HasPermissions

SpecPerm == InitPerm /\ [][NextPerm]_vars

TypeOK ==
  /\ DOMAIN app_ids \subseteq Senders
  /\ queries \subseteq sent

\* ---------------------------------------------------------------- history
Tasks == 1..Len(task_sender)
\* the positions in the log at which task t was completed
ReturnsIn(log, t) == {i \in 1..Len(log) : log[i].task = t}
ReturnsOf(t) == ReturnsIn(returned, t)
QueriesFor(n) == {msg \in queries : msg.sender = n}
SentFor(n) == {msg \in sent : msg.sender = n}
\* the first-enqueued task of a pending list
Oldest(l) == CHOOSE t \in Elems(l) : \A u \in Elems(l) : t <= u
\* the handler that ran last was got_credentials_cb for a query of n
Replied == last.op = "reply"

\* ------------------------------------------------------------------ claims

\* C1: for every connection name at most one credential query is outstanding;
\* however many lookups are waiting on an entry, exactly one query was sent
\* for them (by the first of them) and it is the one outstanding.
C1_OneQueryPerName ==
  \A n \in Senders :
    /\ Cardinality(QueriesFor(n)) <= 1
    /\ (n \in DOMAIN app_ids /\ app_ids[n].pending # <<>>) =>
         LET l == app_ids[n].pending
         IN /\ QueriesFor(n) = {[sender |-> n, task |-> Oldest(l)]}
            /\ \A t \in Elems(l) \ {Oldest(l)} : [sender |-> n, task |-> t] \notin sent

\* three lookups share one query although the peer's disconnect was notified
C1_Witness ==
  \E n \in DOMAIN app_ids :
    /\ Len(app_ids[n].pending) >= 3
    /\ app_ids[n].exited
    /\ Cardinality(QueriesFor(n)) = 1

\* C2: the tasks that were pending when the query completed are all
\* completed by that one run of the handler, each exactly once, and all with
\* the same outcome: the same app id for all, or the error for all.
C2_SameOutcome ==
  Replied =>
    LET ws == Elems(last.waiters)
    IN /\ \A t \in ws : Cardinality(ReturnsOf(t)) = 1
       /\ \A t \in ws : \A i \in ReturnsOf(t) : returned[i].at = "drain"
       /\ \A t, u \in ws : \A i \in ReturnsOf(t), j \in ReturnsOf(u) :
            /\ returned[i].kind = returned[j].kind
            /\ returned[i].value = returned[j].value

\* two waiters got the same app id from one completion
C2_Witness ==
  /\ Replied
  /\ Len(last.waiters) >= 2
  /\ \A t \in Elems(last.waiters) : \E i \in ReturnsOf(t) : returned[i].kind = "value"

\* C3: when the handler runs for an entry that was marked exited while its
\* query was outstanding, every pending task is completed with the error
\* and the entry is not in the table afterwards.
C3_ExitedFails ==
  (Replied /\ last.exited) =>
    /\ \A t \in Elems(last.waiters) :
         /\ ReturnsOf(t) # {}
         /\ \A i \in ReturnsOf(t) : returned[i].kind = "error" /\ returned[i].value = NULL
    /\ last.msg.sender \notin DOMAIN app_ids

\* a successful reply for an exited peer with two waiters has been handled
C3_Witness ==
  /\ Replied
  /\ last.exited
  /\ last.reply # NULL
  /\ Len(last.waiters) >= 2
  /\ \A t \in Elems(last.waiters) : \E i \in ReturnsOf(t) : returned[i].kind = "error"

\* this step is the lookup call of a new task of sender n
LookupStep(n) ==
  /\ last'.op = "lookup"
  /\ task_sender' = Append(task_sender, n)

\* this step sends a credential query on behalf of the task created in it
SendsOwnQuery(n) ==
  LET msg == [sender |-> n, task |-> Len(task_sender')]
  IN /\ msg \notin sent
     /\ sent' = sent \cup {msg}
     /\ queries' = queries \cup {msg}

\* C4: when a run of the handler ends with the app id unresolved (its
\* waiters got the error) the entry is out of the table, and a lookup for a
\* name that has no entry sends a credential query of its own.
C4_FailureNotRetained ==
  [][ /\ ( /\ last'.op = "reply"
           /\ \E t \in Elems(last'.waiters) : \E i \in ReturnsIn(returned', t) :
                returned'[i].kind = "error" )
         => last'.msg.sender \notin DOMAIN app_ids'
      /\ \A n \in Senders :
           (n \notin DOMAIN app_ids /\ LookupStep(n)) => SendsOwnQuery(n)
    ]_vars

\* two lookups of one sender failed one after the other, each on its own query
C4_Witness ==
  \E t, u \in Tasks :
    /\ t < u
    /\ task_sender[t] = task_sender[u]
    /\ [sender |-> task_sender[t], task |-> t] \in sent
    /\ [sender |-> task_sender[u], task |-> u] \in sent
    /\ \E i \in ReturnsOf(t) : returned[i].kind = "error"
    /\ \E j \in ReturnsOf(u) : returned[j].kind = "error"
    /\ task_sender[t] \notin DOMAIN app_ids

\* C5: a disconnect notification for an entry without pending tasks (its
\* app id is cached) removes the entry, and the next lookup for that name
\* sends a new credential query and is not answered from the cache.
C5_DisconnectEvictsCached ==
  [][ \A n \in Senders :
        /\ ( /\ OwnerChanged(n, n, <<>>)
             /\ n \in DOMAIN app_ids
             /\ app_ids[n].pending = <<>> )
           => n \notin DOMAIN app_ids'
        /\ ( /\ LookupStep(n)
             /\ n \notin DOMAIN app_ids
             /\ \E i \in 1..Len(returned) :
                  returned[i].kind = "value" /\ task_sender[returned[i].task] = n )
           => (SendsOwnQuery(n) /\ returned' = returned)
    ]_vars

\* an app id was cached, the peer disconnected, and a later lookup is waiting
\* on a query of its own
C5_Witness ==
  \E n \in DOMAIN app_ids : \E t, u \in Tasks :
    /\ task_sender[t] = n /\ task_sender[u] = n
    /\ \E i \in ReturnsOf(t) : returned[i].kind = "value"
    /\ ReturnsOf(u) = {}
    /\ [sender |-> n, task |-> u] \in queries
    /\ app_ids[n].app_id = NULL

\* C6: an entry that holds an app id has no pending task and no query; no
\* step changes its app id while it stays in the table, no step sends a
\* query for its name, and a lookup for its name is completed at once with
\* the cached app id and is not put on the pending list.
C6_ResolvedIsTerminal ==
  [][ \A n \in DOMAIN app_ids :
        app_ids[n].app_id # NULL =>
          /\ app_ids[n].pending = <<>>
          /\ QueriesFor(n) = {}
          /\ n \in DOMAIN app_ids' =>
               /\ app_ids'[n].app_id = app_ids[n].app_id
               /\ app_ids'[n].pending = <<>>
          /\ {msg \in sent' : msg.sender = n} = SentFor(n)
          /\ LookupStep(n) =>
               returned' = Append(returned, [task |-> Len(task_sender'),
                                             kind |-> "value",
                                             value |-> app_ids[n].app_id,
                                             at |-> "lookup"])
    ]_vars

\* a lookup has just been answered from the cache
C6_Witness ==
  /\ last.op = "lookup"
  /\ returned # <<>>
  /\ returned[Len(returned)].at = "lookup"
  /\ returned[Len(returned)].task = Len(task_sender)
  /\ \E n \in DOMAIN app_ids : app_ids[n].app_id = returned[Len(returned)].value

\* C7 as stated: the pending tasks are completed in the order in which they
\* were enqueued (tasks are numbered in the order of their lookup calls, and
\* a task is enqueued by the call that creates it).
C7_FifoOrder ==
  Replied =>
    \A t, u \in Elems(last.waiters) :
      t < u => \A i \in ReturnsOf(t), j \in ReturnsOf(u) : i < j

\* C7 amended: the pending tasks are completed in the reverse of the order
\* in which they were enqueued: the task enqueued last is completed first.
C7_LifoOrder ==
  Replied =>
    \A t, u \in Elems(last.waiters) :
      t < u => /\ ReturnsOf(t) # {} /\ ReturnsOf(u) # {}
               /\ \A i \in ReturnsOf(t), j \in ReturnsOf(u) : j < i

\* the handler has completed three pending tasks
C7_Witness ==
  /\ Replied
  /\ Len(last.waiters) >= 3
  /\ \A t \in Elems(last.waiters) : ReturnsOf(t) # {}

\* C8 as stated, in the form a finite run refutes: no task is completed
\* twice, and a task without an outcome is still on the pending list of its
\* sender's entry with the credential query outstanding, so that the query's
\* completion (which the claim assumes to arrive) gives it its outcome.
C8_CompletedExactlyOnce ==
  \A t \in Tasks :
    /\ Cardinality(ReturnsOf(t)) <= 1
    /\ ReturnsOf(t) = {} =>
         /\ task_sender[t] \in DOMAIN app_ids
         /\ t \in Elems(app_ids[task_sender[t]].pending)
         /\ QueriesFor(task_sender[t]) # {}

\* the part of a token before its first "-", stated without strchr
BeforeFirstDash(tok) ==
  LET k == CHOOSE i \in 1..Len(tok) :
             tok[i] = "-" /\ \A j \in 1..(i - 1) : tok[j] # "-"
  IN SubSeq(tok, 1, k - 1)

\* the unit paths whose basename is `base`
UnitsNamed(base) ==
  {d \o base : d \in Dirs} \cup {<<"/">> \o base \o <<"/">>}

\* the one-line cgroup files whose systemd line names a unit in `units`
FilesNaming(units) ==
  {SystemdPrefix \o u \o nl : u \in units, nl \in {<<>>, <<"\n">>}}

\* the handler that ran last read the cgroup file (successful reply, peer
\* not exited)
ReadFile == Replied /\ last.reply # NULL /\ ~last.exited

\* the entry holds app id `id` and every task that was pending got it
Delivered(id) ==
  /\ last.msg.sender \in DOMAIN app_ids
  /\ app_ids[last.msg.sender].app_id = id
  /\ app_ids[last.msg.sender].pending = <<>>
  /\ \A t \in Elems(last.waiters) :
       /\ ReturnsOf(t) # {}
       /\ \A i \in ReturnsOf(t) : returned[i].kind = "value" /\ returned[i].value = id

\* C9: a one-line cgroup file whose unit basename is xdg-app-<token>.scope,
\* <token> with a "-", resolves to the part of <token> before its first "-"
\* (myapp for xdg-app-myapp-12345.scope), cached and delivered to all waiters.
C9_SandboxAppId ==
  ReadFile =>
    /\ \A tok \in Tokens :
         ( /\ "-" \in Elems(tok)
           /\ last.content \in FilesNaming(UnitsNamed(XdgAppPrefix \o tok \o ScopeSuffix)) )
         => Delivered(BeforeFirstDash(tok))
    /\ last.content \in FilesNaming({MyAppUnit}) => Delivered(<<"m", "y", "a", "p", "p">>)

\* two waiters got app id "a" for xdg-app-a-b.scope
C9_Witness ==
  /\ ReadFile
  /\ last.content = SystemdPrefix \o <<"/", "u", "/">> \o XdgAppPrefix
                       \o <<"a", "-">> \o ScopeSuffix \o <<"\n">>
  /\ Len(last.waiters) >= 2
  /\ Delivered(<<"a">>)

\* C10: a one-line cgroup file whose unit basename lacks the xdg-app- prefix
\* or the .scope suffix resolves to the empty app id, which is cached and
\* delivered to all waiters as a value, not as the error.
C10_HostAppId ==
  ReadFile =>
    /\ \A base \in OtherNames :
         last.content \in FilesNaming(UnitsNamed(base)) => Delivered(<<>>)
    /\ last.content \in FilesNaming({OtherServiceUnit}) => Delivered(<<>>)

\* two waiters got the empty app id for a unit that has the prefix only
C10_Witness ==
  /\ ReadFile
  /\ last.content = SystemdPrefix \o <<"/">> \o XdgAppPrefix \o <<"a", "-", "1">>
  /\ Len(last.waiters) >= 2
  /\ Delivered(<<>>)

\* every task that was pending got the error, and no app id is kept
FailedAll ==
  /\ last.msg.sender \notin DOMAIN app_ids
  /\ \A t \in Elems(last.waiters) :
       /\ ReturnsOf(t) # {}
       /\ \A i \in ReturnsOf(t) : returned[i].kind = "error" /\ returned[i].value = NULL

\* C11: a one-line cgroup file whose unit basename is xdg-app-<token>.scope
\* with no "-" in <token> leaves the app id unresolved: every waiter gets
\* the error and no app id (the empty one included) is stored or delivered.
C11_NoDashFails ==
  ReadFile =>
    /\ \A tok \in Tokens :
         ( /\ "-" \notin Elems(tok)
           /\ last.content \in FilesNaming(UnitsNamed(XdgAppPrefix \o tok \o ScopeSuffix)) )
         => FailedAll
    /\ last.content \in FilesNaming({NoMarkerUnit}) => FailedAll

\* two waiters got the error for xdg-app-ab.scope
C11_Witness ==
  /\ ReadFile
  /\ last.content = SystemdPrefix \o <<"/">> \o XdgAppPrefix \o <<"a", "b">> \o ScopeSuffix
  /\ Len(last.waiters) >= 2
  /\ FailedAll

\* flag `bit` is set in `flags`, stated without BitAnd
HasBit(flags, bit) == (flags \div bit) % 2 = 1
FlagSet == {XDP_PERMISSION_FLAGS_READ, XDP_PERMISSION_FLAGS_WRITE,
            XDP_PERMISSION_FLAGS_GRANT_PERMISSIONS, XDP_PERMISSION_FLAGS_DELETE}

\* C12: parsing the token list that xdg_unparse_permissions produced for a
\* combination of the four flags gives that combination back.
C12_RoundTrip ==
  perm.op = "parse" => perm.parsed = perm.flags

\* all four flags went through the round trip
C12_Witness ==
  /\ perm.op = "parse"
  /\ perm.flags = XDP_PERMISSION_FLAGS_ALL
  /\ perm.tokens = <<"read", "write", "grant-permissions", "delete">>
  /\ perm.parsed = XDP_PERMISSION_FLAGS_ALL

\* C13: for the empty requester id the effective permissions are the full
\* set whatever the grant record holds, so every required subset is granted;
\* for any requester the answer is TRUE exactly when every required flag is
\* among the effective permissions.
C13_OwnerHasAll ==
  perm.op = "has" =>
    /\ perm.app_id = <<>> =>
         /\ \A bit \in FlagSet : HasBit(perm.current, bit)
         /\ perm.has
    /\ perm.has <=>
         \A bit \in FlagSet : HasBit(perm.required, bit) => HasBit(perm.current, bit)

\* the empty requester was granted delete although the record gives it read only
C13_Witness ==
  /\ perm.op = "has"
  /\ perm.app_id = <<>>
  /\ <<>> \in DOMAIN perm.entry
  /\ perm.entry[<<>>] = <<"read">>
  /\ perm.required = XDP_PERMISSION_FLAGS_DELETE
  /\ perm.has

\* the shape of one table entry after a handler has returned
EntryShapeOK(info) ==
  /\ ~(info.exited /\ info.app_id = NULL /\ info.pending = <<>>)
  /\ \/ info.app_id # NULL /\ info.pending = <<>>
     \/ info.app_id = NULL /\ info.pending # <<>>

\* C14: no entry of the table is exited, unresolved and without waiters;
\* every entry is either resolved without waiters or unresolved with waiters.
C14_EntryShape ==
  \A n \in DOMAIN app_ids : EntryShapeOK(app_ids[n])

\* a resolved entry and an exited entry with waiters are in the table together
C14_Witness ==
  \E n, m \in DOMAIN app_ids :
    /\ app_ids[n].app_id # NULL /\ app_ids[n].pending = <<>>
    /\ app_ids[m].app_id = NULL /\ app_ids[m].exited /\ Len(app_ids[m].pending) >= 2

\* the pending list of n is empty or gone
NoWaiters(table, n) == n \notin DOMAIN table \/ table[n].pending = <<>>

\* C15: an entry has waiters exactly while a credential query for its name
\* is outstanding; the run of got_credentials_cb for a query leaves its
\* entry without waiters, and no other step empties a pending list.
C15_WaitersIffQuery ==
  [][ \A n \in Senders :
        /\ ~NoWaiters(app_ids, n) <=> QueriesFor(n) # {}
        /\ ~NoWaiters(app_ids', n) <=> {msg \in queries' : msg.sender = n} # {}
        /\ (~NoWaiters(app_ids, n) /\ NoWaiters(app_ids', n)) =>
             /\ last'.op = "reply"
             /\ last'.msg \in QueriesFor(n) \ queries'
        /\ (last'.op = "reply" /\ last'.msg.sender = n) =>
             /\ ~NoWaiters(app_ids, n)
             /\ NoWaiters(app_ids', n)
    ]_vars

\* a query completion has just emptied a list of three waiters
C15_Witness ==
  /\ Replied
  /\ Len(last.waiters) >= 3
  /\ NoWaiters(app_ids, last.msg.sender)
  /\ QueriesFor(last.msg.sender) = {}

\* C16: while a query is outstanding its entry stays in the table with the
\* task that sent the query still pending; a disconnect notification for an
\* entry with pending tasks sets exited and changes nothing else.
C16_EntryKeptWhileQuerying ==
  [][ /\ \A msg \in queries :
           /\ msg.sender \in DOMAIN app_ids
           /\ msg.task \in Elems(app_ids[msg.sender].pending)
      /\ \A msg \in queries' :
           /\ msg.sender \in DOMAIN app_ids'
           /\ msg.task \in Elems(app_ids'[msg.sender].pending)
      /\ \A n \in Senders :
           ( /\ last'.op = "signal"
             /\ OwnerChanged(n, n, <<>>)
             /\ ~NoWaiters(app_ids, n) )
           => app_ids' = [app_ids EXCEPT ![n].exited = TRUE]
    ]_vars

\* the peer has disconnected and its entry is kept, marked, with its query
\* outstanding and its waiters in place
C16_Witness ==
  /\ last.op = "signal"
  /\ \E n \in DOMAIN app_ids :
       /\ app_ids[n].exited
       /\ Len(app_ids[n].pending) >= 2
       /\ QueriesFor(n) # {}

\* the notification says that unique name `name` lost its owner for good
LostOwner(name, from, to) == name \in Senders /\ from = name /\ to = <<>>

\* C17: a NameOwnerChanged notification changes nothing unless it reports a
\* unique name of the table that lost its owner with no new owner, and then
\* it changes the entry of that name only.
C17_OwnerChangedFrame ==
  [][ last'.op = "signal" =>
        \A name \in BusNames : \A from, to \in {name, <<>>} :
          OwnerChanged(name, from, to) =>
            /\ UNCHANGED <<queries, sent, task_sender, returned, perm>>
            /\ ~(LostOwner(name, from, to) /\ name \in DOMAIN app_ids)
                 => app_ids' = app_ids
            /\ \A n \in DOMAIN app_ids \ {name} :
                 n \in DOMAIN app_ids' /\ app_ids'[n] = app_ids[n]
            /\ DOMAIN app_ids' \subseteq DOMAIN app_ids
    ]_vars

\* a notification has been handled while both peers have entries, one of
\* them cached and one with waiters
C17_Witness ==
  /\ last.op = "signal"
  /\ \E n, m \in DOMAIN app_ids :
       /\ app_ids[n].app_id # NULL
       /\ app_ids[m].pending # <<>>
       /\ ~app_ids[m].exited

\* the one-line cgroup files whose systemd line names a unit that is no
\* sandbox scope
HostFiles ==
  FilesNaming(UNION {UnitsNamed(base) : base \in OtherNames} \cup {OtherServiceUnit})

\* the handler that ran last stored the empty app id or gave it to a waiter
GaveHostIdentity ==
  /\ Replied
  /\ \/ /\ last.msg.sender \in DOMAIN app_ids
        /\ app_ids[last.msg.sender].app_id = <<>>
     \/ \E t \in Elems(last.waiters) : \E i \in ReturnsOf(t) :
          returned[i].kind = "value" /\ returned[i].value = <<>>

\* C18 as stated: the empty (host) app id is stored or delivered only after
\* a successful reply for a peer not marked exited, whose cgroup file was
\* read and has a systemd line naming a unit that is not a sandbox scope.
C18_HostOnlyForHostUnit ==
  GaveHostIdentity =>
    /\ last.reply # NULL
    /\ ~last.exited
    /\ last.content \in HostFiles

\* after a run of the handler whose query was sent by a caller that has
\* cancelled: the query failed and every waiter got the error; after any
\* run: a cancelled waiter was completed like the others
CancelOutcome ==
  Replied =>
    /\ last.msg.task \in last.cancelled => (last.reply = NULL /\ FailedAll)
    /\ \A t \in last.cancelled : t \in Elems(last.waiters) /\ ReturnsOf(t) # {}
    /\ \A t, u \in Elems(last.waiters) : \A i \in ReturnsOf(t), j \in ReturnsOf(u) :
         returned[i].kind = returned[j].kind

\* C19: the credential query fails once the caller that sent it has
\* cancelled, and then every waiter, cancelled or not, gets the error and
\* the entry is removed; cancelling any waiter changes neither the
\* outstanding queries nor the table, and the waiter stays on the list
\* until the handler completes it.
C19_QueryBoundToFirstToken ==
  [][ /\ CancelOutcome'
      /\ last'.op = "cancel" =>
           /\ queries' = queries
           /\ app_ids' = app_ids
           /\ returned' = returned
    ]_vars

\* the first caller cancelled; the second, which did not, got the error too
C19_Witness ==
  /\ Replied
  /\ Len(last.waiters) >= 2
  /\ last.msg.task \in last.cancelled
  /\ \E t \in Elems(last.waiters) : t \notin last.cancelled
  /\ FailedAll

\* C20 as stated, in the form a finite run refutes: a task whose lookup was
\* made by a callback while the handler walked the pending list has its
\* outcome when the handler returns, or is still pending on an outstanding
\* query that will give it one.
C20_ReentrantLookupCompleted ==
  Replied =>
    \A t \in Tasks :
      t > Len(task_sender) - Cardinality(last.reentrant) =>
        \/ ReturnsOf(t) # {}
        \/ /\ task_sender[t] \in DOMAIN app_ids
           /\ t \in Elems(app_ids[task_sender[t]].pending)
           /\ QueriesFor(task_sender[t]) # {}

====
